---------------------------- MODULE Spec2Model ----------------------------
(***************************************************************************)
(* Model of the two notebooks of the SCRNet repository:                    *)
(*   - create_comp_noisy_emnist_letters_training_data.ipynb (the Dataset   *)
(*     Builder: block-median compression, Poisson noise, clipping,         *)
(*     scaling, flattening, one HDF5 container per compression level);     *)
(*   - the training notebook (the Model Trainer: loading the containers,   *)
(*     preparing targets and one-hot labels, staged training fit_model).   *)
(*                                                                         *)
(* Arrays are functions over 0..n-1, as numpy indexes them.  A float is a  *)
(* pair <<n, d>> standing for n/d: medians are <<n,1>> or <<n,2>> (n odd), *)
(* scaled pixels are <<n,255>>.                                            *)
(***************************************************************************)
EXTENDS Integers, Sequences, FiniteSets, TLC

(***************************************************************************)
(* Program constants.                                                      *)
(***************************************************************************)
ImageSide == 28
out_dim == 28
PassThroughLimit == 15
PixelMax == 255
num_classes == 26
directory == "training_data"
cmp_dims == <<4, 7, 14, 28>>

(***************************************************************************)
(* Bounds of the model.                                                    *)
(***************************************************************************)
NumTrain == 2
NumTest == 1
MaxCorpus == 1
MaxNoise == 1
MaxLevel == 29
NumLabels == 2
MaxStages == 2
MaxEpochs == 2
MaxHistSeed == 1

VARIABLES
    emnist,             \* the external corpus: images and raw labels
    fs,                 \* file system: container name -> (dataset name -> array)
    dirs,               \* existing directories
    b_pc,               \* Dataset Builder: position in its last cell
    b_i,                \* Dataset Builder: index into cmp_dims
    clean_train_og,     \* Dataset Builder globals
    clean_test_og,
    ctd,                \* locals and outcome of the last create_training_data call
    t_pc,               \* Model Trainer: position in its data-loading cell
    t_i,                \* Model Trainer: index into cmp_dims
    in_signals_by_cmp,  \* Model Trainer globals
    clean_train,
    clean_test,
    train_labels,
    test_labels,
    raw_labels,         \* label preparation applied on its own
    onehot_labels,
    epochs_list,        \* fit_model: arguments
    batch_sizes,
    fm_pc,              \* fit_model: position
    fm_idx,             \* fit_model: loop index
    fit_hist_all,       \* fit_model: merged history (unbound until stage 0)
    in_model,           \* the model object: identity, weights, fit calls received
    stage_hists,        \* the History returned by each in_model.fit call
    fm_result           \* what fit_model returned or raised

builderVars == <<fs, dirs, b_pc, b_i, clean_train_og, clean_test_og, ctd>>
trainerVars == <<t_pc, t_i, in_signals_by_cmp, clean_train, clean_test,
                 train_labels, test_labels>>
labelVars == <<raw_labels, onehot_labels>>
fitVars == <<epochs_list, batch_sizes, fm_pc, fm_idx, fit_hist_all, in_model,
             stage_hists, fm_result>>
vars == <<emnist, builderVars, trainerVars, labelVars, fitVars>>

(***************************************************************************)
(* Floats.                                                                 *)
(***************************************************************************)
ToFloat(v) == <<v, 1>>

Mean2(a, b) == IF (a + b) % 2 = 0 THEN <<(a + b) \div 2, 1>> ELSE <<a + b, 2>>

Floor(x) == x[1] \div x[2]

IsZero(x) == x[1] = 0

(***************************************************************************)
(* The corpus.  extract_training_samples / extract_test_samples return a   *)
(* fixed data set of 28x28 uint8 images with labels 1..26; the model draws *)
(* it from a family indexed by a seed.  Image 0 is the uniform all-100     *)
(* image; the others have a zero background like the EMNIST letters.       *)
(***************************************************************************)
Idx(n) == 0 .. (n - 1)

EmnistPixel(s, r, c) ==
    IF s = 0 THEN 100
    ELSE LET v == (s * (r * r + 3 * c) + 11 * r * c + 29 * s) % (PixelMax + 1)
         IN  IF v < 96 THEN 0 ELSE v

EmnistImage(s) ==
    [r \in Idx(ImageSide) |-> [c \in Idx(ImageSide) |-> EmnistPixel(s, r, c)]]

EmnistLabel(s) == ((5 * s + 11) % num_classes) + 1

extract_training_samples(seed) ==
    [images |-> [i \in Idx(NumTrain) |-> EmnistImage(seed + i)],
     labels |-> [i \in Idx(NumTrain) |-> EmnistLabel(seed + i)]]

extract_test_samples(seed) ==
    [images |-> [i \in Idx(NumTest) |-> EmnistImage(seed + NumTrain + i)],
     labels |-> [i \in Idx(NumTest) |-> EmnistLabel(seed + NumTrain + i)]]

Corpus(seed) == [train |-> extract_training_samples(seed),
                 test  |-> extract_test_samples(seed)]

(***************************************************************************)
(* median_downsampling.                                                    *)
(***************************************************************************)
\* Mutant of window_size: the division rounded up.
window_size_ceil(cmp_dim) == (ImageSide + cmp_dim - 1) \div cmp_dim

window_size(cmp_dim) == ImageSide \div cmp_dim

\* skimage view_as_windows(in_image, (w, w), step=w): the number of windows
\* along each axis, and window (i, j) as the flat list of its w*w entries.
NumWindows(side, w) == ((side - w) \div w) + 1

view_as_windows(in_image, w, i, j) ==
    [k \in Idx(w * w) |-> in_image[i * w + (k \div w)][j * w + (k % w)]]

\* The element of rank k (0-based) of the sorted values, all in lo..hi: the
\* least v with more than k values <= v.
RECURSIVE Select(_, _, _, _, _)
Select(vals, n, k, lo, hi) ==
    IF lo >= hi THEN lo
    ELSE LET mid == (lo + hi) \div 2
         IN  IF Cardinality({x \in Idx(n) : vals[x] <= mid}) > k
             THEN Select(vals, n, k, lo, mid)
             ELSE Select(vals, n, k, mid + 1, hi)

SortedAt(vals, n, k) == Select(vals, n, k, 0, PixelMax)

\* Mutant of np_median: the lower of the two middle values, not their mean.
np_median_lower(vals, n) == ToFloat(SortedAt(vals, n, (n - 1) \div 2))

\* np.median of n values: the middle one, or the mean of the two middle ones.
np_median(vals, n) ==
    IF n % 2 = 1
    THEN ToFloat(SortedAt(vals, n, (n - 1) \div 2))
    ELSE Mean2(SortedAt(vals, n, (n \div 2) - 1), SortedAt(vals, n, n \div 2))

\* The side of the grid median_downsampling returns.
median_downsampling_side(cmp_dim) ==
    IF cmp_dim < PassThroughLimit
    THEN NumWindows(ImageSide, window_size(cmp_dim))
    ELSE ImageSide

\* Mutant of median_downsampling: the pass-through returns in_image / 255.
median_downsampling_scaled(in_image, cmp_dim) ==
    IF cmp_dim < PassThroughLimit
    THEN LET w == window_size(cmp_dim)
             m == NumWindows(ImageSide, w)
         IN  [i \in Idx(m) |-> [j \in Idx(m) |->
                 np_median(view_as_windows(in_image, w, i, j), w * w)]]
    ELSE [r \in Idx(ImageSide) |-> [c \in Idx(ImageSide) |->
             <<in_image[r][c], PixelMax>>]]

\* The grid is float64 once stored in out_array; the pass-through entries
\* are written as the floats they become.
median_downsampling(in_image, cmp_dim) ==
    IF cmp_dim < PassThroughLimit
    THEN LET w == window_size(cmp_dim)
             m == NumWindows(ImageSide, w)
         IN  [i \in Idx(m) |-> [j \in Idx(m) |->
                 np_median(view_as_windows(in_image, w, i, j), w * w)]]
    ELSE [r \in Idx(ImageSide) |-> [c \in Idx(ImageSide) |->
             ToFloat(in_image[r][c])]]

(***************************************************************************)
(* down_sample_list: out_array[idx] = median_downsampling(image, cmp_dim)  *)
(* into an np.empty((len, cmp_dim, cmp_dim)); numpy raises ValueError when *)
(* the (m, m) grid does not broadcast to (cmp_dim, cmp_dim).               *)
(***************************************************************************)
Broadcasts(m, cmp_dim) == m = cmp_dim \/ m = 1

SetItem(grid, m, cmp_dim) ==
    [r \in Idx(cmp_dim) |-> [c \in Idx(cmp_dim) |->
        grid[IF m = 1 THEN 0 ELSE r][IF m = 1 THEN 0 ELSE c]]]

ShapeError == "ValueError: could not broadcast input array"

\* Mutant of down_sample_list: the grids are stored in reverse order.
down_sample_list_reversed(in_array, n, cmp_dim) ==
    IF n > 0 /\ ~Broadcasts(median_downsampling_side(cmp_dim), cmp_dim)
    THEN [raised |-> TRUE, out_array |-> <<>>]
    ELSE [raised |-> FALSE,
          out_array |-> [idx \in Idx(n) |->
             SetItem(median_downsampling(in_array[n - 1 - idx], cmp_dim),
                     median_downsampling_side(cmp_dim), cmp_dim)]]

down_sample_list(in_array, n, cmp_dim) ==
    IF n > 0 /\ ~Broadcasts(median_downsampling_side(cmp_dim), cmp_dim)
    THEN [raised |-> TRUE, out_array |-> <<>>]
    ELSE [raised |-> FALSE,
          out_array |-> [idx \in Idx(n) |->
             SetItem(median_downsampling(in_array[idx], cmp_dim),
                     median_downsampling_side(cmp_dim), cmp_dim)]]

(***************************************************************************)
(* create_training_data.                                                   *)
(***************************************************************************)
\* One draw of np.random.poisson(lam): 0 when lam = 0, otherwise any natural
\* number; the model draws from a family of patterns indexed by p.
PoissonDraw(lam, p, idx, r, c) ==
    IF IsZero(lam) THEN 0
    ELSE IF p % 2 = 0 THEN Floor(lam) + (p \div 2) * 37 * ((r + c + idx) % 3)
    ELSE IF (r + 2 * c + idx) % 3 = 0 THEN 0
    ELSE Floor(lam) + 61 * ((r + 2 * c + idx + p) % 5)

np_random_poisson(lam, n, cmp_dim, p) ==
    [idx \in Idx(n) |-> [r \in Idx(cmp_dim) |-> [c \in Idx(cmp_dim) |->
        PoissonDraw(lam[idx][r][c], p, idx, r, c)]]]

clip(v, lo, hi) == IF v < lo THEN lo ELSE IF v > hi THEN hi ELSE v

\* Mutant of np_clip: no clipping.
np_clip_none(a, n, cmp_dim) == a

np_clip(a, n, cmp_dim) ==
    [idx \in Idx(n) |-> [r \in Idx(cmp_dim) |-> [c \in Idx(cmp_dim) |->
        clip(a[idx][r][c], 0, PixelMax)]]]

\* Mutant of reshape: column-major (Fortran) order.
reshape_F(matrix, side) ==
    [k \in Idx(side * side) |-> matrix[k % side][k \div side]]

\* matrix.reshape(side**2,) of a C-ordered side x side matrix.
reshape(matrix, side) ==
    [k \in Idx(side * side) |-> matrix[k \div side][k % side]]

\* np.array([matrix.reshape(side**2,) for matrix in a/255])
scale_and_flatten(a, n, side) ==
    [idx \in Idx(n) |->
        reshape([r \in Idx(side) |-> [c \in Idx(side) |->
                    <<a[idx][r][c], PixelMax>>]], side)]

NoCall == [status |-> "none", cmp_dim |-> 0,
           cmp_train |-> <<>>, cmp_test |-> <<>>,
           noisy_train_ |-> <<>>, noisy_test_ |-> <<>>,
           clip_train |-> <<>>, clip_test |-> <<>>,
           noisy_train |-> <<>>, noisy_test |-> <<>>]

create_training_data(c_train, c_test, cmp_dim, p) ==
    LET nTr == NumTrain
        nTe == NumTest
        dsl_train == down_sample_list(c_train, nTr, cmp_dim)
        dsl_test  == down_sample_list(c_test, nTe, cmp_dim)
    IN  IF dsl_train.raised \/ dsl_test.raised
        THEN [NoCall EXCEPT !.status = ShapeError, !.cmp_dim = cmp_dim]
        ELSE LET cmp_train    == dsl_train.out_array
                 cmp_test     == dsl_test.out_array
                 noisy_train_ == np_random_poisson(cmp_train, nTr, cmp_dim, p)
                 noisy_test_  == np_random_poisson(cmp_test, nTe, cmp_dim, p)
                 clip_train   == np_clip(noisy_train_, nTr, cmp_dim)
                 clip_test    == np_clip(noisy_test_, nTe, cmp_dim)
             IN  [status |-> "returned", cmp_dim |-> cmp_dim,
                  cmp_train |-> cmp_train, cmp_test |-> cmp_test,
                  noisy_train_ |-> noisy_train_, noisy_test_ |-> noisy_test_,
                  clip_train |-> clip_train, clip_test |-> clip_test,
                  noisy_train |-> scale_and_flatten(clip_train, nTr, cmp_dim),
                  noisy_test  |-> scale_and_flatten(clip_test, nTe, cmp_dim)]

(***************************************************************************)
(* The file system and the HDF5 containers.                                *)
(***************************************************************************)
\* f'{directory}/emnist_{cmp_dim}x{cmp_dim}_train.h5'
BuilderDatFile(dir, cmp_dim) == <<dir, "/emnist_", cmp_dim, "x", cmp_dim, "_train.h5">>

TrainerDatFile(dir, cmp_dim) == <<dir, "/emnist_", cmp_dim, "x", cmp_dim, "_train.h5">>

\* f'{cmp_dim}x{cmp_dim}'
SignalKey(cmp_dim) == <<cmp_dim, "x", cmp_dim>>

EmptyContainer == [n \in {} |-> <<>>]

\* Mutant of H5OpenW: mode 'a', which keeps what the file holds.
H5OpenA(files, name) ==
    [n \in (DOMAIN files) \cup {name} |->
        IF n \in DOMAIN files THEN files[n] ELSE EmptyContainer]

\* h5py.File(name, 'w'): create the file, truncating it if it exists.
H5OpenW(files, name) ==
    [n \in (DOMAIN files) \cup {name} |->
        IF n = name THEN EmptyContainer ELSE files[n]]

\* f.create_dataset(ds, data=data, compression='gzip'): gzip is lossless.
create_dataset(files, name, ds, data) ==
    [files EXCEPT ![name] =
        [d \in (DOMAIN files[name]) \cup {ds} |->
            IF d = ds THEN data ELSE files[name][d]]]

EmptyFs == [n \in {} |-> EmptyContainer]

\* A container left by an earlier run, possibly of another program version.
StaleFs == [n \in {BuilderDatFile(directory, cmp_dims[1])} |->
               [d \in {"noisy_train", "noisy_val"} |-> <<>>]]

(***************************************************************************)
(* The Dataset Builder's last cell.                                        *)
(***************************************************************************)
BuilderSetup ==
    /\ b_pc = "start"
    /\ dirs' = dirs \cup {directory}
    /\ clean_train_og' = emnist.train.images
    /\ clean_test_og' = emnist.test.images
    /\ b_i' = 0
    /\ b_pc' = "loop"
    /\ UNCHANGED <<emnist, fs, ctd, trainerVars, labelVars, fitVars>>

BuilderSave(files, dat_file, res) ==
    create_dataset(
        create_dataset(H5OpenW(files, dat_file), dat_file,
                       "noisy_train", res.noisy_train),
        dat_file, "noisy_test", res.noisy_test)

BuilderIter ==
    /\ b_pc = "loop"
    /\ b_i < Len(cmp_dims)
    /\ LET cmp_dim == cmp_dims[b_i + 1]
           dat_file == BuilderDatFile(directory, cmp_dim)
       IN  \E p \in 0 .. MaxNoise :
             LET res == create_training_data(clean_train_og, clean_test_og,
                                             cmp_dim, p)
             IN  /\ ctd' = res
                 /\ IF res.status = "returned" /\ directory \in dirs
                    THEN /\ fs' = BuilderSave(fs, dat_file, res)
                         /\ b_i' = b_i + 1
                         /\ b_pc' = IF b_i + 1 = Len(cmp_dims)
                                    THEN "done" ELSE "loop"
                    ELSE /\ b_pc' = "failed"
                         /\ UNCHANGED <<fs, b_i>>
    /\ UNCHANGED <<emnist, dirs, clean_train_og, clean_test_og,
                   trainerVars, labelVars, fitVars>>

\* A call of create_training_data on a level of any size, on its own.
CallCreateTrainingData ==
    /\ b_pc = "call"
    /\ \E cmp_dim \in 1 .. MaxLevel, p \in 0 .. MaxNoise :
         ctd' = create_training_data(clean_train_og, clean_test_og, cmp_dim, p)
    /\ b_pc' = "called"
    /\ UNCHANGED <<emnist, fs, dirs, b_i, clean_train_og, clean_test_og,
                   trainerVars, labelVars, fitVars>>

(***************************************************************************)
(* The Model Trainer's data-loading cell.  The trainer notebook is run     *)
(* after the builder notebook ("First Run: create_comp_noisy_...").        *)
(***************************************************************************)
\* dict.fromkeys(['4x4','7x7','14x14','28x28'], [])
InitialSignals ==
    [k \in {SignalKey(cmp_dims[n]) : n \in 1 .. Len(cmp_dims)} |-> <<>>]

\* with h5py.File(dat_file, 'r'): dat_file['noisy_train'][:], ['noisy_test'][:]
H5Readable(files, name) ==
    /\ name \in DOMAIN files
    /\ {"noisy_train", "noisy_test"} \subseteq DOMAIN files[name]

\* The number of loop iterations that complete: all of them, or those before
\* the first container that cannot be read.
LevelsLoaded(files) ==
    LET bad == {n \in 1 .. Len(cmp_dims) :
                   ~H5Readable(files, TrainerDatFile(directory, cmp_dims[n]))}
    IN  IF bad = {} THEN Len(cmp_dims)
        ELSE (CHOOSE n \in bad : \A m \in bad : n <= m) - 1

\* in_signals_by_cmp after the first k iterations of the loading loop.
LoadSignals(signals, files, k) ==
    [key \in DOMAIN signals |->
        IF \E n \in 1 .. k : key = SignalKey(cmp_dims[n])
        THEN LET n == CHOOSE m \in 1 .. k : key = SignalKey(cmp_dims[m])
                 dat_file == TrainerDatFile(directory, cmp_dims[n])
             IN  [train |-> files[dat_file]["noisy_train"],
                  test  |-> files[dat_file]["noisy_test"]]
        ELSE signals[key]]

\* Loading the corpus and the loop over the containers.
TrainerLoad ==
    /\ b_pc = "done"
    /\ t_pc = "start"
    /\ clean_train' = emnist.train.images
    /\ train_labels' = emnist.train.labels
    /\ clean_test' = emnist.test.images
    /\ test_labels' = emnist.test.labels
    /\ t_i' = LevelsLoaded(fs)
    /\ in_signals_by_cmp' = LoadSignals(in_signals_by_cmp, fs, LevelsLoaded(fs))
    /\ t_pc' = IF LevelsLoaded(fs) = Len(cmp_dims) THEN "prepare" ELSE "failed"
    /\ UNCHANGED <<emnist, builderVars, labelVars, fitVars>>

\* np.array([matrix.reshape(out_dim**2,) for matrix in clean/255])
prepare_clean(clean, n) ==
    [idx \in Idx(n) |->
        reshape([r \in Idx(out_dim) |-> [c \in Idx(out_dim) |->
                    <<clean[idx][r][c], PixelMax>>]], out_dim)]

\* Mutant of labels_minus_one: the raw 1-indexed labels.
labels_unshifted(labels, n) == labels

\* labels - 1 on a uint8 array
labels_minus_one(labels, n) == [i \in Idx(n) |-> (labels[i] - 1) % 256]

\* keras to_categorical(y, num_classes=k): row i is zero but for a 1 at y[i]
to_categorical(y, n, k) ==
    [i \in Idx(n) |-> [j \in Idx(k) |-> IF j = y[i] THEN 1 ELSE 0]]

prepare_labels(labels, n) ==
    to_categorical(labels_minus_one(labels, n), n, num_classes)

TrainerPrepare ==
    /\ t_pc = "prepare"
    /\ clean_train' = prepare_clean(clean_train, NumTrain)
    /\ clean_test' = prepare_clean(clean_test, NumTest)
    /\ train_labels' = prepare_labels(train_labels, NumTrain)
    /\ test_labels' = prepare_labels(test_labels, NumTest)
    /\ t_pc' = "done"
    /\ UNCHANGED <<emnist, builderVars, t_i, in_signals_by_cmp, labelVars, fitVars>>

\* The label preparation applied to an array of raw labels, on its own.
ApplyPrepareLabels ==
    /\ onehot_labels = <<>>
    /\ onehot_labels' = prepare_labels(raw_labels, NumLabels)
    /\ UNCHANGED <<emnist, builderVars, trainerVars, raw_labels, fitVars>>

(***************************************************************************)
(* fit_model.  Python lists are sequences; idx is 0-based as in the code.  *)
(***************************************************************************)
HistoryKeys == {"loss", "val_loss"}

\* The History.history of one in_model.fit call: one value per epoch and key.
FitHistory(epochs, h) ==
    [key \in HistoryKeys |->
        [e \in 1 .. epochs |->
            1000 - 100 * h - e - (IF key = "val_loss" THEN 0 ELSE 7)]]

\* Mutant of LengthsDiffer: only too many epoch counts are rejected.
LengthsDiffer_oneway(el, bs) == Len(el) > Len(bs)

LengthsDiffer(el, bs) == Len(el) # Len(bs)

FreshModel == [id |-> "in_model", weights |-> <<>>, fit_calls |-> <<>>]

Unbound == [bound |-> FALSE, dict |-> <<>>]

NoResult == [kind |-> "none", model |-> "", history |-> <<>>]

FitModelEnter ==
    /\ fm_pc = "start"
    /\ IF LengthsDiffer(epochs_list, batch_sizes)
       THEN /\ fm_pc' = "raised"
            /\ fm_result' = [NoResult EXCEPT !.kind = "ValueError"]
       ELSE /\ fm_pc' = "loop"
            /\ UNCHANGED fm_result
    /\ UNCHANGED <<emnist, builderVars, trainerVars, labelVars, epochs_list,
                   batch_sizes, fm_idx, fit_hist_all, in_model, stage_hists>>

\* fit_hist_all after a stage: the first stage's history, then per key of
\* fit_hist_all the list concatenation with the new stage's list.
MergeHistory(all, idx, hist) ==
    IF idx = 0
    THEN [bound |-> TRUE, dict |-> hist]
    ELSE [bound |-> TRUE,
          dict |-> [key \in DOMAIN all.dict |-> all.dict[key] \o hist[key]]]

FitModelStage ==
    /\ fm_pc = "loop"
    /\ fm_idx < Len(epochs_list)
    /\ IF fm_idx >= Len(batch_sizes)
       THEN /\ fm_pc' = "raised"
            /\ fm_result' = [NoResult EXCEPT !.kind = "IndexError"]
            /\ UNCHANGED <<fm_idx, fit_hist_all, in_model, stage_hists>>
       ELSE \E h \in 0 .. MaxHistSeed :
              LET epoch == epochs_list[fm_idx + 1]
                  call == [epochs |-> epoch,
                           batch_size |-> batch_sizes[fm_idx + 1],
                           validation_split |-> <<2, 10>>]
                  fit_hist == FitHistory(epoch, h)
              IN  /\ in_model' = [in_model EXCEPT
                                    !.fit_calls = Append(@, call),
                                    !.weights = Append(@, <<epoch, h>>)]
                  /\ stage_hists' = Append(stage_hists, fit_hist)
                  /\ fit_hist_all' = MergeHistory(fit_hist_all, fm_idx, fit_hist)
                  /\ fm_idx' = fm_idx + 1
                  /\ UNCHANGED <<fm_pc, fm_result>>
    /\ UNCHANGED <<emnist, builderVars, trainerVars, labelVars, epochs_list,
                   batch_sizes>>

FitModelReturn ==
    /\ fm_pc = "loop"
    /\ fm_idx = Len(epochs_list)
    /\ IF fit_hist_all.bound
       THEN /\ fm_pc' = "returned"
            /\ fm_result' = [kind |-> "returned", model |-> in_model.id,
                             history |-> fit_hist_all.dict]
       ELSE /\ fm_pc' = "raised"
            /\ fm_result' = [NoResult EXCEPT !.kind = "UnboundLocalError"]
    /\ UNCHANGED <<emnist, builderVars, trainerVars, labelVars, epochs_list,
                   batch_sizes, fm_idx, fit_hist_all, in_model, stage_hists>>

(***************************************************************************)
(* Specifications.                                                         *)
(***************************************************************************)
BuilderIdle ==
    /\ fs = EmptyFs /\ dirs = {} /\ b_pc = "idle" /\ b_i = 0
    /\ clean_train_og = <<>> /\ clean_test_og = <<>> /\ ctd = NoCall

TrainerIdle(pc) ==
    /\ t_pc = pc /\ t_i = 0 /\ in_signals_by_cmp = InitialSignals
    /\ clean_train = <<>> /\ clean_test = <<>>
    /\ train_labels = <<>> /\ test_labels = <<>>

LabelsIdle == raw_labels = <<>> /\ onehot_labels = <<>>

FitIdle ==
    /\ epochs_list = <<>> /\ batch_sizes = <<>> /\ fm_pc = "idle" /\ fm_idx = 0
    /\ fit_hist_all = Unbound /\ in_model = FreshModel
    /\ stage_hists = <<>> /\ fm_result = NoResult

\* The two notebooks run one after the other.
Init ==
    /\ \E seed \in 0 .. MaxCorpus : emnist = Corpus(seed)
    /\ \/ fs = EmptyFs /\ dirs = {}
       \/ fs = StaleFs /\ dirs = {directory}
    /\ b_pc = "start" /\ b_i = 0
    /\ clean_train_og = <<>> /\ clean_test_og = <<>> /\ ctd = NoCall
    /\ TrainerIdle("start")
    /\ LabelsIdle
    /\ FitIdle

Next ==
    \/ BuilderSetup
    \/ BuilderIter
    \/ TrainerLoad
    \/ TrainerPrepare

Spec == Init /\ [][Next]_vars

\* create_training_data on every level 1..MaxLevel.
InitLevels ==
    /\ \E seed \in 0 .. MaxCorpus + 1 : emnist = Corpus(seed)
    /\ fs = EmptyFs /\ dirs = {}
    /\ b_pc = "call" /\ b_i = 0
    /\ clean_train_og = emnist.train.images
    /\ clean_test_og = emnist.test.images
    /\ ctd = NoCall
    /\ TrainerIdle("idle")
    /\ LabelsIdle
    /\ FitIdle

NextLevels == CallCreateTrainingData

SpecLevels == InitLevels /\ [][NextLevels]_vars

\* The label preparation on every array of raw labels 1..26.
InitLabels ==
    /\ emnist = <<>>
    /\ BuilderIdle
    /\ TrainerIdle("idle")
    /\ raw_labels \in [Idx(NumLabels) -> 1 .. num_classes]
    /\ onehot_labels = <<>>
    /\ FitIdle

NextLabels == ApplyPrepareLabels

SpecLabels == InitLabels /\ [][NextLabels]_vars

\* fit_model on every pair of lists of at most MaxStages + 1 entries.
ListsUpTo(S, n) == UNION {[1 .. k -> S] : k \in 0 .. n}

InitFit ==
    /\ emnist = <<>>
    /\ BuilderIdle
    /\ TrainerIdle("idle")
    /\ LabelsIdle
    /\ epochs_list \in ListsUpTo(1 .. MaxEpochs, MaxStages)
    /\ batch_sizes \in ListsUpTo({100, 150}, MaxStages + 1)
    /\ fm_pc = "start" /\ fm_idx = 0
    /\ fit_hist_all = Unbound /\ in_model = FreshModel
    /\ stage_hists = <<>> /\ fm_result = NoResult

NextFit ==
    \/ FitModelEnter
    \/ FitModelStage
    \/ FitModelReturn

SpecFit == InitFit /\ [][NextFit]_vars

(***************************************************************************)
(* Properties.                                                             *)
(***************************************************************************)
Returned == ctd.status = "returned"

\* Twice the value of a float with denominator 1 or 2.
Twice(x) == IF x[2] = 1 THEN 2 * x[1] ELSE x[1]

\* The cells of block (i, j) when the image is cut into blocks of side w.
BlockCells(w, i, j) ==
    ((i * w) .. (i * w + w - 1)) \X ((j * w) .. (j * w + w - 1))

\* m is the median of the image's values on the cells: at most half of the
\* values lie below it and at most half above it; it is one of the values,
\* or, with as many below as above, the midpoint of the two nearest values.
IsExactMedian(m, image, cells) ==
    LET n     == Cardinality(cells)
        below == {rc \in cells : 2 * image[rc[1]][rc[2]] < Twice(m)}
        above == {rc \in cells : 2 * image[rc[1]][rc[2]] > Twice(m)}
        lt    == Cardinality(below)
        gt    == Cardinality(above)
    IN  /\ m[2] \in {1, 2}
        /\ m[2] = 2 => m[1] % 2 = 1
        /\ IF 2 * lt < n /\ 2 * gt < n
           THEN \E rc \in cells : ToFloat(image[rc[1]][rc[2]]) = m
           ELSE /\ 2 * lt = n /\ 2 * gt = n
                /\ \E lo \in below, hi \in above :
                     /\ \A rc \in below : image[rc[1]][rc[2]] <= image[lo[1]][lo[2]]
                     /\ \A rc \in above : image[rc[1]][rc[2]] >= image[hi[1]][hi[2]]
                     /\ Twice(m) = image[lo[1]][lo[2]] + image[hi[1]][hi[2]]

\* grid is the level x level grid of the block medians of image, the blocks
\* having side w.
IsBlockMedianGrid(grid, image, level, w) ==
    /\ DOMAIN grid = Idx(level)
    /\ \A i \in Idx(level) :
         /\ DOMAIN grid[i] = Idx(level)
         /\ \A j \in Idx(level) :
              IsExactMedian(grid[i][j], image, BlockCells(w, i, j))

IsUniform(image, v) ==
    \A r \in Idx(ImageSide), c \in Idx(ImageSide) : image[r][c] = v

\* C3: for every image and every level in {4,7,14} the compressed grid is
\* level x level and entry (i,j) is the exact median of block (i,j) of the
\* partition of the image into (28/level) x (28/level) blocks; a uniform
\* all-100 image at level 4 gives a grid of 100s.
C3_BlockMedianGrid ==
    (Returned /\ ctd.cmp_dim \in {4, 7, 14}) =>
        LET level == ctd.cmp_dim
            w == ImageSide \div level
        IN  /\ w * level = ImageSide
            /\ \A idx \in Idx(NumTrain) :
                 /\ IsBlockMedianGrid(ctd.cmp_train[idx], clean_train_og[idx], level, w)
                 /\ (level = 4 /\ IsUniform(clean_train_og[idx], 100)) =>
                      \A i \in Idx(4), j \in Idx(4) :
                         ctd.cmp_train[idx][i][j] = ToFloat(100)
            /\ \A idx \in Idx(NumTest) :
                 IsBlockMedianGrid(ctd.cmp_test[idx], clean_test_og[idx], level, w)

C3_Witness ==
    /\ Returned /\ ctd.cmp_dim = 4
    /\ \E idx \in Idx(NumTrain) :
         /\ IsUniform(clean_train_og[idx], 100)
         /\ \A i \in Idx(4), j \in Idx(4) : ctd.cmp_train[idx][i][j] = ToFloat(100)
    /\ \E idx \in Idx(NumTrain) :
         \E i \in Idx(4), j \in Idx(4) :
            ctd.cmp_train[idx][i][j] # ctd.cmp_train[idx][0][0]

\* C8: at level 28 the grid down_sample_list stores for an image equals the
\* image entry for entry.
C8_Level28Identity ==
    (Returned /\ ctd.cmp_dim = 28) =>
        /\ \A idx \in Idx(NumTrain) :
             /\ DOMAIN ctd.cmp_train[idx] = Idx(ImageSide)
             /\ \A r \in Idx(ImageSide) :
                  /\ DOMAIN ctd.cmp_train[idx][r] = Idx(ImageSide)
                  /\ \A c \in Idx(ImageSide) :
                       ctd.cmp_train[idx][r][c] = ToFloat(clean_train_og[idx][r][c])
        /\ \A idx \in Idx(NumTest) :
             \A r \in Idx(ImageSide), c \in Idx(ImageSide) :
                ctd.cmp_test[idx][r][c] = ToFloat(clean_test_og[idx][r][c])

C8_Witness ==
    /\ Returned /\ ctd.cmp_dim = 28
    /\ \E idx \in Idx(NumTrain) :
         \E r \in Idx(ImageSide), c \in Idx(ImageSide) :
            /\ clean_train_og[idx][r][c] # clean_train_og[idx][c][r]
            /\ ctd.cmp_train[idx][r][c] = ToFloat(clean_train_og[idx][r][c])

InUnitInterval(x) == x[2] > 0 /\ 0 <= x[1] /\ x[1] <= x[2]

StoredValuesInRange(a) ==
    \A idx \in DOMAIN a : \A k \in DOMAIN a[idx] : InUnitInterval(a[idx][k])

\* C5: whatever the Poisson draws are, every clipped value lies in [0,255]
\* and every value stored (returned, and written to a container) in [0,1].
C5_ClampedAndScaledRanges ==
    /\ Returned =>
         /\ \A idx \in Idx(NumTrain) :
              \A r \in Idx(ctd.cmp_dim), c \in Idx(ctd.cmp_dim) :
                 ctd.clip_train[idx][r][c] \in 0 .. PixelMax
         /\ \A idx \in Idx(NumTest) :
              \A r \in Idx(ctd.cmp_dim), c \in Idx(ctd.cmp_dim) :
                 ctd.clip_test[idx][r][c] \in 0 .. PixelMax
         /\ StoredValuesInRange(ctd.noisy_train)
         /\ StoredValuesInRange(ctd.noisy_test)
    /\ \A name \in DOMAIN fs : \A ds \in DOMAIN fs[name] :
         StoredValuesInRange(fs[name][ds])

C5_Witness ==
    /\ Returned
    /\ \E idx \in Idx(NumTrain) :
         \E r \in Idx(ctd.cmp_dim), c \in Idx(ctd.cmp_dim) :
            /\ ctd.noisy_train_[idx][r][c] > PixelMax
            /\ ctd.clip_train[idx][r][c] = PixelMax
            /\ ctd.noisy_train[idx][r * ctd.cmp_dim + c] = <<PixelMax, PixelMax>>

\* C10: the stored vector of a sample has length level^2 and its element k
\* is the scaled grid entry (k div level, k mod level); reshaping it back to
\* level x level gives the grid again.
C10_RowMajorFlatten ==
    Returned =>
        LET level == ctd.cmp_dim
        IN  \A idx \in Idx(NumTrain) :
              LET vec == ctd.noisy_train[idx]
                  grid == [r \in Idx(level) |-> [c \in Idx(level) |->
                              <<ctd.clip_train[idx][r][c], PixelMax>>]]
              IN  /\ DOMAIN vec = Idx(level * level)
                  /\ \A k \in Idx(level * level) :
                       vec[k] = grid[k \div level][k % level]
                  /\ [r \in Idx(level) |-> [c \in Idx(level) |->
                         vec[r * level + c]]] = grid

C10_Witness ==
    /\ Returned /\ ctd.cmp_dim = 7
    /\ \E idx \in Idx(NumTrain) :
         \E r \in Idx(7), c \in Idx(7) :
            /\ ctd.clip_train[idx][r][c] # ctd.clip_train[idx][c][r]
            /\ ctd.noisy_train[idx][r * 7 + c] = <<ctd.clip_train[idx][r][c], PixelMax>>

\* Element k of the stored row of a sample: the entry (k div level, k mod
\* level) of the image's compressed grid, drawn with noise pattern p as
\* sample idx, clipped and scaled.
NoisyEntryOf(grid, level, p, idx, k) ==
    LET r == k \div level
        c == k % level
    IN  <<clip(PoissonDraw(grid[r][c], p, idx, r, c), 0, PixelMax), PixelMax>>

RowsDeriveFrom(rows, images, n, level) ==
    LET grids == [idx \in Idx(n) |-> median_downsampling(images[idx], level)]
    IN  /\ DOMAIN rows = Idx(n)
        /\ \E p \in 0 .. MaxNoise :
             \A idx \in Idx(n) :
                /\ DOMAIN rows[idx] = Idx(level * level)
                /\ \A k \in Idx(level * level) :
                     rows[idx][k] = NoisyEntryOf(grids[idx], level, p, idx, k)

\* Row i of the one-hot array is the label vector of raw label r.
IsLabelVector(row, r) ==
    /\ DOMAIN row = Idx(num_classes)
    /\ \A j \in Idx(num_classes) : row[j] = IF j = r - 1 THEN 1 ELSE 0

\* C6: row i of every noisy array (as written, and as the trainer holds it)
\* derives from raw image i of the same partition, and row i of the
\* trainer's clean targets and one-hot labels from raw sample i.
C6_SampleAlignment ==
    /\ \A n \in 1 .. Len(cmp_dims) :
         LET level == cmp_dims[n]
             file == BuilderDatFile(directory, level)
             key == SignalKey(level)
         IN  /\ (b_pc \in {"loop", "done"} /\ n <= b_i) =>
                  /\ RowsDeriveFrom(fs[file]["noisy_train"], emnist.train.images,
                                    NumTrain, level)
                  /\ RowsDeriveFrom(fs[file]["noisy_test"], emnist.test.images,
                                    NumTest, level)
             /\ (t_pc \in {"prepare", "done"} /\ n <= t_i) =>
                  /\ in_signals_by_cmp[key].train = fs[file]["noisy_train"]
                  /\ in_signals_by_cmp[key].test = fs[file]["noisy_test"]
    /\ t_pc = "done" =>
         /\ DOMAIN clean_train = Idx(NumTrain)
         /\ DOMAIN train_labels = Idx(NumTrain)
         /\ \A i \in Idx(NumTrain) :
              /\ \A r \in Idx(out_dim), c \in Idx(out_dim) :
                   clean_train[i][r * out_dim + c] =
                      <<emnist.train.images[i][r][c], PixelMax>>
              /\ IsLabelVector(train_labels[i], emnist.train.labels[i])
         /\ DOMAIN clean_test = Idx(NumTest)
         /\ DOMAIN test_labels = Idx(NumTest)
         /\ \A i \in Idx(NumTest) :
              /\ \A r \in Idx(out_dim), c \in Idx(out_dim) :
                   clean_test[i][r * out_dim + c] =
                      <<emnist.test.images[i][r][c], PixelMax>>
              /\ IsLabelVector(test_labels[i], emnist.test.labels[i])

C6_Witness ==
    /\ t_pc = "done"
    /\ in_signals_by_cmp[SignalKey(4)].train[0] # in_signals_by_cmp[SignalKey(4)].train[1]
    /\ clean_train[0] # clean_train[1]
    /\ train_labels[0] # train_labels[1]

IsArrayOfShape(a, n, width) ==
    /\ DOMAIN a = Idx(n)
    /\ \A idx \in Idx(n) : DOMAIN a[idx] = Idx(width)

\* C7: once the builder is done, each level in {4,7,14,28} has exactly one
\* container, holding exactly noisy_train and noisy_test of shape
\* (sample_count, level^2); the trainer opens that container name for the
\* level and reads those two arrays.
C7_ContainersPerLevel ==
    b_pc = "done" =>
        \A n \in 1 .. Len(cmp_dims) :
           LET level == cmp_dims[n]
               file == BuilderDatFile(directory, level)
           IN  /\ {name \in DOMAIN fs : name[3] = level} = {file}
               /\ DOMAIN fs[file] = {"noisy_train", "noisy_test"}
               /\ IsArrayOfShape(fs[file]["noisy_train"], NumTrain, level * level)
               /\ IsArrayOfShape(fs[file]["noisy_test"], NumTest, level * level)
               /\ t_pc # "failed"
               /\ (t_pc \in {"prepare", "done"} /\ n <= t_i) =>
                    /\ TrainerDatFile(directory, level) = file
                    /\ in_signals_by_cmp[SignalKey(level)] =
                          [train |-> fs[file]["noisy_train"],
                           test  |-> fs[file]["noisy_test"]]

C7_Witness ==
    /\ b_pc = "done" /\ t_pc = "done" /\ t_i = Len(cmp_dims)
    /\ IsArrayOfShape(in_signals_by_cmp[SignalKey(28)].train, NumTrain, 784)

RECURSIVE SumTo(_, _)
SumTo(row, k) == IF k = 0 THEN 0 ELSE row[k - 1] + SumTo(row, k - 1)

\* C9: for a raw label r in 1..26 the label vector has length 26, its
\* entries sum to 1 and its single 1 is at index r - 1.
C9_OneHotLabels ==
    onehot_labels # <<>> =>
        \A i \in Idx(NumLabels) :
           LET row == onehot_labels[i]
               r == raw_labels[i]
           IN  /\ r \in 1 .. num_classes
               /\ DOMAIN row = Idx(num_classes)
               /\ \A j \in Idx(num_classes) : row[j] \in {0, 1}
               /\ SumTo(row, num_classes) = 1
               /\ row[r - 1] = 1

C9_Witness ==
    /\ onehot_labels # <<>>
    /\ raw_labels[0] = 26 /\ onehot_labels[0][25] = 1
    /\ raw_labels[1] = 1 /\ onehot_labels[1][0] = 1

\* C1: with lists of different lengths fit_model raises ValueError before
\* any stage: in_model.fit is never called, the parameters are unchanged
\* and no history is returned.
C1_MismatchFailsBeforeTraining ==
    (fm_pc # "start" /\ Len(epochs_list) # Len(batch_sizes)) =>
        /\ fm_pc = "raised"
        /\ fm_result.kind = "ValueError"
        /\ in_model = FreshModel
        /\ stage_hists = <<>>
        /\ ~fit_hist_all.bound

C1_Witness ==
    /\ fm_pc = "raised"
    /\ Len(epochs_list) = 2 /\ Len(batch_sizes) = 3
    /\ fm_result.kind = "ValueError"

RECURSIVE ConcatStages(_, _, _)
ConcatStages(hists, key, k) ==
    IF k = 0 THEN <<>> ELSE ConcatStages(hists, key, k - 1) \o hists[k][key]

RECURSIVE SumSeq(_, _)
SumSeq(q, k) == IF k = 0 THEN 0 ELSE q[k] + SumSeq(q, k - 1)

StagedTrainingResult ==
    /\ fm_pc = "returned"
    /\ fm_result.kind = "returned"
    /\ fm_result.model = FreshModel.id
    /\ in_model.fit_calls =
          [k \in 1 .. Len(epochs_list) |->
              [epochs |-> epochs_list[k], batch_size |-> batch_sizes[k],
               validation_split |-> <<2, 10>>]]
    /\ Len(stage_hists) = Len(epochs_list)
    /\ DOMAIN fm_result.history = HistoryKeys
    /\ \A key \in HistoryKeys :
         /\ fm_result.history[key] =
               ConcatStages(stage_hists, key, Len(epochs_list))
         /\ Len(fm_result.history[key]) = SumSeq(epochs_list, Len(epochs_list))

\* C2: for every pair of equal-length lists fit_model calls in_model.fit
\* once per (epochs, batch size) pair, in order, with validation_split 0.2,
\* and returns the same model with the history whose every metric is the
\* concatenation of the stages' sequences.
C2_StagedTraining ==
    (fm_pc \in {"returned", "raised"} /\ Len(epochs_list) = Len(batch_sizes)) =>
        StagedTrainingResult

\* The same for lists of at least one stage.
StagedTrainingNonEmpty ==
    (fm_pc \in {"returned", "raised"} /\ Len(epochs_list) = Len(batch_sizes)
       /\ Len(epochs_list) > 0) =>
        StagedTrainingResult

Called == b_pc = "called"

Divides28(c) == ImageSide % c = 0

\* C4 as stated: for every level that does not divide 28 the call fails
\* with the array-shape error and returns no arrays.
C4_NonDivisorAlwaysFails ==
    (Called /\ ~Divides28(ctd.cmp_dim)) => ctd.status = ShapeError

\* C4 as amended: a level that does not divide 28 fails with the
\* array-shape error when the downsampled image is stored, except the
\* levels 3, 5 and 9, for which arrays of width level^2 are returned, the
\* grids being the medians of the level x level blocks of side 28 div level
\* at the top left of the image.
C4_NonDivisorFailsExcept359 ==
    (Called /\ ~Divides28(ctd.cmp_dim)) =>
        LET level == ctd.cmp_dim
            w == ImageSide \div level
        IN  IF level \in {3, 5, 9}
            THEN /\ ctd.status = "returned"
                 /\ w * level < ImageSide
                 /\ IsArrayOfShape(ctd.noisy_train, NumTrain, level * level)
                 /\ IsArrayOfShape(ctd.noisy_test, NumTest, level * level)
                 /\ \A idx \in Idx(NumTrain) :
                      IsBlockMedianGrid(ctd.cmp_train[idx], clean_train_og[idx],
                                        level, w)
            ELSE /\ ctd.status = ShapeError
                 /\ ctd.noisy_train = <<>> /\ ctd.noisy_test = <<>>

C4_Witness ==
    /\ Called /\ ctd.cmp_dim = 6 /\ ctd.status = ShapeError

=============================================================================
